---- MODULE Spec2Model ----
(***************************************************************************)
(* ensk.is: the search core of routes/core.py (_results, cached_results)   *)
(* and its callers.  Strings are sequences of character codes, so that     *)
(* str.lower(), `in`, startswith, endswith and the ordering of sort keys   *)
(* are computed, not assumed.                                              *)
(***************************************************************************)
EXTENDS Integers, Sequences, FiniteSets, TLC

VARIABLES
    entries,    \* routes/core.py: the module-level corpus
    last,       \* the most recent direct call of _results and its value
    cache,      \* the lru_cache of cached_results, least recently used first
    pc,         \* per caller: position inside its cached_results call
    req,        \* per caller: the call it makes (handler and query)
    ret,        \* per caller: the value its call returned
    invoked,    \* history: per cache key, the _results invocations made for it
                \* since it was last absent from the cache by eviction
    sched,      \* how the callers are scheduled: "coroutines" or "threads"
    ncalls,     \* history: the number of calls started
    maxsize,    \* the maxsize the lru_cache of cached_results is built with
    resp,       \* per caller: what the handler it called returned or raised
    wmaxsize,   \* util.cache_response: the maxsize of the wrapper, or None
    wcache,     \* util.cache_response: the OrderedDict of the wrapper, oldest first
    wlock,      \* util.cache_response: the caller that holds the lock, or 0
    wcalls,     \* history: the invocations of the wrapped function
    hist,       \* history: the keys looked up in either cache, in order
    mfile,      \* routes/web.py: the file MISSING_WORDS_FILE
    line,       \* gen.py read_all_entries: the source line being parsed
    wd          \* gen.py read_all_entries: what parse_line made of the line

\* the state of the handlers and of the cache_response wrapper
routevars == <<maxsize, resp, wmaxsize, wcache, wlock, wcalls, hist, mfile, line, wd>>

vars == <<entries, last, cache, pc, req, ret, invoked, sched, ncalls,
          maxsize, resp, wmaxsize, wcache, wlock, wcalls, hist, mfile, line, wd>>

-----------------------------------------------------------------------------
(* Python strings *)

\* str.lower() on one ASCII character
LowerChar(c) == IF c \in 65..90 THEN c + 32 ELSE c

\* str.lower()
Lower(s) == [i \in 1..Len(s) |-> LowerChar(s[i])]

\* a.startswith(b)
StartsWith(a, b) == Len(b) <= Len(a) /\ SubSeq(a, 1, Len(b)) = b

\* a.endswith(b)
EndsWith(a, b) == Len(b) <= Len(a) /\ SubSeq(a, Len(a) - Len(b) + 1, Len(a)) = b

\* b in a
Contains(a, b) ==
    \E i \in 0..(Len(a) - Len(b)) : SubSeq(a, i + 1, i + Len(b)) = b

\* a <= b for str: lexicographic on code points
RECURSIVE StrLE(_, _)
StrLE(a, b) ==
    IF a = <<>> THEN TRUE
    ELSE IF b = <<>> THEN FALSE
    ELSE IF a[1] # b[1] THEN a[1] < b[1]
    ELSE StrLE(Tail(a), Tail(b))

\* s[:n], for any integer n (a negative n counts from the end)
SliceTo(s, n) ==
    IF n >= 0
    THEN SubSeq(s, 1, IF n < Len(s) THEN n ELSE Len(s))
    ELSE SubSeq(s, 1, IF Len(s) + n > 0 THEN Len(s) + n ELSE 0)

\* s[:-1]
DropLast(s) == SubSeq(s, 1, Len(s) - 1)

\* s.replace(" ", "_")
ReplaceSpace(s) == [i \in 1..Len(s) |-> IF s[i] = 32 THEN 95 ELSE s[i]]

\* str.isspace() of one ASCII character: space, \t, \n, \v, \f, \r
IsSpace(c) == c \in {32, 9, 10, 11, 12, 13}

\* C21 mutant: the word is used as it came
Strip_None(s) == s

\* s.strip()
Strip(s) ==
    LET keep == {i \in 1..Len(s) : ~IsSpace(s[i])}
    IN  IF keep = {} THEN <<>>
        ELSE SubSeq(s, CHOOSE i \in keep : \A j \in keep : i <= j,
                       CHOOSE i \in keep : \A j \in keep : j <= i)

IsDigit(c) == c \in 48..57

\* int(s) raises ValueError unless s, stripped, is an optional sign and then
\* digits, where single underscores may stand between digits
IntRaises(s) ==
    LET t == Strip(s)
        signed == Len(t) >= 1 /\ t[1] \in {43, 45}
        d == IF signed THEN Tail(t) ELSE t
    IN  ~ /\ Len(d) >= 1
          /\ IsDigit(d[1])
          /\ IsDigit(d[Len(d)])
          /\ \A i \in 1..Len(d) : IsDigit(d[i]) \/ d[i] = 95
          /\ \A i \in 1..(Len(d) - 1) : ~(d[i] = 95 /\ d[i + 1] = 95)

\* the number a string of digits and underscores stands for
RECURSIVE DigitsValue(_)
DigitsValue(d) ==
    IF d = <<>> THEN 0
    ELSE IF d[Len(d)] = 95 THEN DigitsValue(SubSeq(d, 1, Len(d) - 1))
    ELSE DigitsValue(SubSeq(d, 1, Len(d) - 1)) * 10 + (d[Len(d)] - 48)

\* int(s) of a string it accepts
IntOf(s) ==
    LET t == Strip(s)
    IN  IF t[1] = 45 THEN 0 - DigitsValue(Tail(t))
        ELSE IF t[1] = 43 THEN DigitsValue(Tail(t))
        ELSE DigitsValue(t)

\* f"{n:03}" for 0 <= n <= 999
Format03(n) == <<48 + (n \div 100), 48 + ((n \div 10) % 10), 48 + (n % 10)>>

\* s.index(c): the offset of the first occurrence of c in s
Index(s, c) ==
    CHOOSE i \in 0..(Len(s) - Len(c)) :
        /\ SubSeq(s, i + 1, i + Len(c)) = c
        /\ \A j \in 0..(i - 1) : SubSeq(s, j + 1, j + Len(c)) # c

\* s.split(sep) for a one-character sep
RECURSIVE Split(_, _)
Split(s, sep) ==
    IF \A i \in 1..Len(s) : s[i] # sep THEN <<s>>
    ELSE LET i == CHOOSE i \in 1..Len(s) :
                      s[i] = sep /\ \A j \in 1..(i - 1) : s[j] # sep
         IN  <<SubSeq(s, 1, i - 1)>> \o Split(SubSeq(s, i + 1, Len(s)), sep)

\* the key of every sort in the program: d["word"].lower()
SortKey(d) == Lower(d.word)

\* list.sort(key=...) and sorted(): stable, ascending.  An element's place is
\* the number of elements that sort before it: those with a smaller key, and
\* those with an equal key that stand before it in the list.
SortByWord(s) ==
    LET n == Len(s)
        key == [i \in 1..n |-> SortKey(s[i])]
        Before(j, i) ==
            IF key[j] = key[i] THEN j < i ELSE StrLE(key[j], key[i])
        place == [i \in 1..n |-> 1 + Cardinality({j \in 1..n : Before(j, i)})]
    IN  IF \A i \in 1..(n - 1) : StrLE(key[i], key[i + 1])
        THEN s
        ELSE [r \in 1..n |-> s[CHOOSE i \in 1..n : place[i] = r]]

-----------------------------------------------------------------------------
(* Program constants *)

DEFAULT_SEARCH_LIMIT == 50
SEARCH_CACHE_SIZE == 1000
max_exact == 2
base_buffer == 15
scan_threshold == 100

-----------------------------------------------------------------------------
(* The corpus: db.read_all_entries() *)

\* one row of the dictionary table
Entry(w, d, p) ==
    [word |-> w, definition |-> d, ipa_uk |-> <<>>, ipa_us |-> <<>>, page_num |-> p]

\* EnskDatabase._consume / read_all_entries: rows sorted by lower-cased word
read_all_entries(rows) == SortByWord(rows)

-----------------------------------------------------------------------------
(* routes/core.py: _format_item *)

\* x.replace(c, r) for a one-character c
RECURSIVE Replace(_, _, _)
Replace(x, c, r) ==
    IF x = <<>> THEN <<>>
    ELSE (IF x[1] = c THEN r ELSE <<x[1]>>) \o Replace(Tail(x), c, r)

EM_OPEN == <<60, 101, 109, 62>>
EM_CLOSE == <<60, 47, 101, 109, 62>>

\* The formatted item.  Definitions of the model hold no "%[...]%" link, so
\* LINK_FORMAT_REGEX.sub leaves them as they are.  The URLs are kept as the
\* values their f-strings interpolate.
_format_item(item) ==
    LET w == item.word
        x == Replace(Replace(Replace(item.definition, 126, w), 91, EM_OPEN), 93, EM_CLOSE)
        audiofn == ReplaceSpace(w)
        p == item.page_num
    IN  [word |-> w,
         def |-> x,
         ipa_uk |-> item.ipa_uk,
         ipa_us |-> item.ipa_us,
         audio_uk |-> <<"uk", audiofn>>,
         audio_us |-> <<"us", audiofn>>,
         page_num |-> p,
         page_url |-> IF p > 0 THEN <<"page", p>> ELSE <<>>]

FormatAll(s) == [i \in 1..Len(s) |-> _format_item(s[i])]

-----------------------------------------------------------------------------
(* dict.py: the parts of a definition *)

CAT_N == <<110, 46>>        \* "n."
CAT_S == <<115, 46>>        \* "s."

\* dict.py line 48: the word categories read from data/catwords.txt; the model
\* keeps two of them
CATEGORIES == {CAT_N, CAT_S}

\* routes/core.py lines 80-94: category to name (the names in ASCII)
CAT_TO_NAME == (CAT_N :> "nafnord") @@ (CAT_S :> "sagnord")

\* Python's None as a dict key and as a return value
None == <<>>

\* dict.py startswith_category: the category s starts with and the offset at
\* which it ends, or None (no category is a prefix of another, so the order in
\* which the frozenset is iterated does not matter)
startswith_category(s) ==
    LET hits == {c \in CATEGORIES : StartsWith(Strip(s), c)}
    IN  IF hits = {} THEN None
        ELSE LET c == CHOOSE c \in hits : TRUE
             IN  <<c, Index(s, c) + Len(c)>>

\* out[k].append(v) on a defaultdict(list)
AppendTo(out, k, v) ==
    IF k \in DOMAIN out THEN [out EXCEPT ![k] = Append(@, v)]
    ELSE [x \in DOMAIN out \cup {k} |-> IF x = k THEN <<v>> ELSE out[x]]

\* dict.py lines 152-159: the loop of unpack_definition from comp[i] on
RECURSIVE UnpackFrom(_, _, _, _)
UnpackFrom(comp, i, currcat, out) ==
    IF i > Len(comp) THEN out
    ELSE LET c == comp[i]
             sw == startswith_category(c)
         IN  IF sw = None
             THEN UnpackFrom(comp, i + 1, currcat, AppendTo(out, currcat, Strip(c)))
             ELSE UnpackFrom(comp, i + 1, sw[1],
                             AppendTo(out, sw[1], Strip(SubSeq(c, sw[2] + 1, Len(c)))))

\* dict.py unpack_definition: category -> the texts in that category
unpack_definition(s) == UnpackFrom(Split(s, 59), 1, None, <<>>)

\* {CAT_TO_NAME[k]: v for k, v in comp.items()} raises KeyError for a key that
\* is no category
TranslateRaises(comp) == \E k \in DOMAIN comp : k \notin DOMAIN CAT_TO_NAME

\* {CAT_TO_NAME[k]: v for k, v in comp.items()}
Translate(comp) ==
    [n \in {CAT_TO_NAME[k] : k \in DOMAIN comp} |->
        comp[CHOOSE k \in DOMAIN comp : CAT_TO_NAME[k] = n]]

-----------------------------------------------------------------------------
(* dict.py: parse_line *)

BOM == 65279        \* "\ufeff"
NO_VAL == 9999

\* s.split(): the runs of non-whitespace characters of s
RECURSIVE SplitWs(_)
SplitWs(s) ==
    IF \A i \in 1..Len(s) : IsSpace(s[i]) THEN <<>>
    ELSE LET a == CHOOSE i \in 1..Len(s) :
                      ~IsSpace(s[i]) /\ \A j \in 1..(i - 1) : IsSpace(s[j])
             b == IF \E i \in a..Len(s) : IsSpace(s[i])
                  THEN CHOOSE i \in a..Len(s) :
                           IsSpace(s[i]) /\ \A j \in a..(i - 1) : ~IsSpace(s[j])
                  ELSE Len(s) + 1
         IN  <<SubSeq(s, a, b - 1)>> \o SplitWs(SubSeq(s, b, Len(s)))

\* sep.join(parts)
RECURSIVE Join(_, _)
Join(sep, parts) ==
    IF parts = <<>> THEN <<>>
    ELSE IF Len(parts) = 1 THEN parts[1]
    ELSE parts[1] \o sep \o Join(sep, Tail(parts))

\* c.replace("  ", " "): from the left, without overlap
RECURSIVE ReplaceTwoSpaces(_)
ReplaceTwoSpaces(c) ==
    IF Len(c) < 2 THEN c
    ELSE IF c[1] = 32 /\ c[2] = 32 THEN <<32>> \o ReplaceTwoSpaces(SubSeq(c, 3, Len(c)))
    ELSE <<c[1]>> \o ReplaceTwoSpaces(Tail(c))

\* C23 mutant: the loop does not stop at the first category it meets
FirstCategory_Last(comp) ==
    IF \E i \in 1..Len(comp) : comp[i] \in CATEGORIES
    THEN (CHOOSE i \in 1..Len(comp) :
              comp[i] \in CATEGORIES
                  /\ \A j \in (i + 1)..Len(comp) : comp[j] \notin CATEGORIES) - 1
    ELSE NO_VAL

\* lines 112-116: the index (from 0) of the first token that is a category,
\* or NO_VAL
FirstCategory(comp) ==
    IF \E i \in 1..Len(comp) : comp[i] \in CATEGORIES
    THEN (CHOOSE i \in 1..Len(comp) :
              comp[i] \in CATEGORIES
                  /\ \A j \in 1..(i - 1) : comp[j] \notin CATEGORIES) - 1
    ELSE NO_VAL

\* line 122: c.replace("\ufeff", "").strip().replace("  ", " ")
Clean(c) == ReplaceTwoSpaces(Strip(Replace(c, BOM, <<>>)))

\* line 125: c.startswith("(") and c.endswith(")")
Wrapped(c) == Len(c) >= 1 /\ c[1] = 40 /\ c[Len(c)] = 41

\* no line has been parsed
NotParsed == [done |-> FALSE, raised |-> "", value |-> <<>>]

\* parse_line raises: no value is returned
RaisedBy(msg) == [done |-> TRUE, raised |-> msg, value |-> <<>>]

\* dict.py parse_line: (word, definition), or the exception raised
parse_line(s) ==
    LET comp == SplitWs(s)
        idx == FirstCategory(comp)
    IN  IF idx = NO_VAL THEN RaisedBy("No cat found")
        ELSE LET head == SubSeq(comp, 1, idx)
                 cleaned == [i \in 1..Len(head) |-> Clean(head[i])]
                 wentries == SelectSeq(cleaned, LAMBDA c : c # <<>>)
             IN  IF \E i \in 1..Len(wentries) : Wrapped(wentries[i])
                 THEN RaisedBy("Invalid entry")
                 ELSE [done |-> TRUE, raised |-> "",
                       value |-> <<Join(<<32>>, wentries),
                                   Join(<<32>>, SubSeq(comp, idx + 1, Len(comp)))>>]

-----------------------------------------------------------------------------
(* routes/core.py: _results *)

\* the locals of _results while it scans the corpus
ScanStart ==
    [equal |-> <<>>, swith |-> <<>>, ewith |-> <<>>, other |-> <<>>,
     exact_match_found |-> FALSE, has_more |-> FALSE,
     collected_exact |-> 0, need_exact |-> TRUE, brk |-> FALSE]

Total(st) == Len(st.equal) + Len(st.swith) + Len(st.ewith) + Len(st.other)

\* lines 182-190 and 220-225: the bucket of a matching entry
Classify(st, k, kl, ql) ==
    IF kl = ql
    THEN [st EXCEPT !.equal = Append(@, k), !.exact_match_found = TRUE]
    ELSE IF StartsWith(kl, ql) THEN [st EXCEPT !.swith = Append(@, k)]
    ELSE IF EndsWith(kl, ql) THEN [st EXCEPT !.ewith = Append(@, k)]
    ELSE [st EXCEPT !.other = Append(@, k)]

\* lines 179-190: one iteration of the unlimited loop
StepAll(st, k, ql, exact_match) ==
    LET kl == Lower(k.word)
    IN  IF (exact_match /\ ql = kl) \/ (~exact_match /\ Contains(kl, ql))
        THEN Classify(st, k, kl, ql)
        ELSE st

\* lines 229-258: the early-termination test after a substring match
EarlyStop(st, limit) ==
    IF ~(~st.need_exact \/ Total(st) > scan_threshold) THEN st
    ELSE IF Len(st.equal) >= limit
    THEN [st EXCEPT !.has_more = TRUE, !.brk = TRUE]
    ELSE LET remaining == limit - Len(st.equal)
         IN  IF Len(st.swith) >= remaining + base_buffer
             THEN [st EXCEPT !.has_more = Len(st.ewith) > 0 \/ Len(st.other) > 0,
                             !.brk = TRUE]
             ELSE IF Len(st.swith) + Len(st.ewith) >= remaining + base_buffer
             THEN [st EXCEPT !.has_more = Len(st.other) > 0,
                             !.brk = Len(st.swith) + Len(st.ewith)
                                        >= remaining + base_buffer * 2]
             ELSE IF Total(st) >= limit + base_buffer * 2
             THEN [st EXCEPT !.has_more = TRUE, !.brk = TRUE]
             ELSE st

\* C6 mutant: exact mode that accepts every entry containing the query
ExactStep_BySubstring(st, k, kl, ql) ==
    IF Contains(kl, ql)
    THEN [st EXCEPT !.equal = Append(@, k),
                    !.exact_match_found = TRUE,
                    !.collected_exact = @ + 1,
                    !.brk = st.collected_exact + 1 >= max_exact]
    ELSE st

\* lines 204-210: exact_match mode of the limited loop
ExactStep(st, k, kl, ql) ==
    IF ql = kl
    THEN [st EXCEPT !.equal = Append(@, k),
                    !.exact_match_found = TRUE,
                    !.collected_exact = @ + 1,
                    !.brk = st.collected_exact + 1 >= max_exact]
    ELSE st

\* lines 212-258: substring mode of the limited loop
SubstringStep(st, k, kl, ql, limit) ==
    IF Contains(kl, ql)
    THEN LET s1 == IF kl = ql /\ st.collected_exact < max_exact
                   THEN [st EXCEPT !.equal = Append(@, k),
                                   !.exact_match_found = TRUE,
                                   !.collected_exact = @ + 1,
                                   !.need_exact =
                                       IF st.collected_exact + 1 >= max_exact
                                       THEN FALSE ELSE @]
                   ELSE IF StartsWith(kl, ql)
                   THEN [st EXCEPT !.swith = Append(@, k)]
                   ELSE IF EndsWith(kl, ql)
                   THEN [st EXCEPT !.ewith = Append(@, k)]
                   ELSE [st EXCEPT !.other = Append(@, k)]
         IN  EarlyStop(s1, limit)
    ELSE st

\* lines 200-258: one iteration of the limited loop
StepLimited(st, k, ql, exact_match, limit) ==
    LET kl == Lower(k.word)
    IN  IF exact_match
        THEN ExactStep(st, k, kl, ql)
        ELSE SubstringStep(st, k, kl, ql, limit)

\* lines 178-258: one iteration of `for k in entries`
Step(st, k, ql, exact_match, limit) ==
    IF limit <= 0
    THEN StepAll(st, k, ql, exact_match)
    ELSE StepLimited(st, k, ql, exact_match, limit)

\* lines 178-258: the iterations lo..hi of `for k in entries`, in order, until
\* the end or a break (the range is halved to keep the evaluation shallow)
RECURSIVE ScanRange(_, _, _, _, _, _, _)
ScanRange(corpus, lo, hi, st, ql, exact_match, limit) ==
    IF lo > hi \/ st.brk THEN st
    ELSE IF lo = hi THEN Step(st, corpus[lo], ql, exact_match, limit)
    ELSE LET mid == (lo + hi) \div 2
             s1 == ScanRange(corpus, lo, mid, st, ql, exact_match, limit)
         IN  IF s1.brk THEN s1
             ELSE ScanRange(corpus, mid + 1, hi, s1, ql, exact_match, limit)

Scan(corpus, ql, exact_match, limit) ==
    ScanRange(corpus, 1, Len(corpus), ScanStart, ql, exact_match, limit)

\* lines 266-302: the buckets combined in priority order
CombineBuckets(equal, swith, ewith, other, st, limit) ==
    LET r0 == FormatAll(equal)
    IN  IF limit > 0
        THEN LET r1 == r0 \o FormatAll(SliceTo(swith, limit - Len(r0)))
                 r2 == r1 \o FormatAll(SliceTo(ewith, limit - Len(r1)))
                 r3 == r2 \o FormatAll(SliceTo(other, limit - Len(r2)))
             IN  [results |-> r3,
                  has_more |-> IF ~st.has_more THEN Total(st) > limit ELSE TRUE]
        ELSE [results |-> r0 \o FormatAll(swith) \o FormatAll(ewith) \o FormatAll(other),
              has_more |-> st.has_more]

\* C4 mutant: the buckets combined in the order the scan filled them
Combine_Unsorted(st, limit) ==
    CombineBuckets(st.equal, st.swith, st.ewith, st.other, st, limit)

\* lines 260-302: sort the buckets and combine them in priority order
Combine(st, limit) ==
    CombineBuckets(SortByWord(st.equal), SortByWord(st.swith),
                   SortByWord(st.ewith), SortByWord(st.other), st, limit)

\* line 306: the plural fallback is taken
PluralFallback(q, exact_match, results) ==
    Len(results) = 0 /\ ~exact_match /\ Len(q) >= 3 /\ q[Len(q)] = 115

\* C16 mutant: the final slice applied whatever the limit
Return_SliceAlways(results, exact_match_found, has_more, limit) ==
    <<SliceTo(results, limit), exact_match_found, has_more>>

\* C7 mutant: the combined list returned without the final slice
Return_Unsliced(results, exact_match_found, has_more, limit) ==
    <<results, exact_match_found, has_more>>

\* line 309: the returned tuple
Return(results, exact_match_found, has_more, limit) ==
    <<IF limit > 0 THEN SliceTo(results, limit) ELSE results,
      exact_match_found, has_more>>

\* C17 mutant: no query counts as empty
NotQuery_Never(q) == FALSE

\* line 165: `not q`
NotQuery(q) == q = <<>>

\* C25 mutant: the recursive call keeps the caller's exact_match
FallbackExact_Same(exact_match) == exact_match

\* line 307: the recursive call is made with exact_match=True
FallbackExact(exact_match) == TRUE

\* _results over a given corpus: the returned tuple, and the calls of _results
\* made until it returned, each with its (q, exact_match)
RECURSIVE ResultsCalls(_, _, _, _)
ResultsCalls(corpus, q, exact_match, limit) ==
    IF NotQuery(q)
    THEN [ret |-> <<<<>>, FALSE, FALSE>>, calls |-> <<<<q, exact_match>>>>]
    ELSE LET st == Scan(corpus, Lower(q), exact_match, limit)
             c == Combine(st, limit)
         IN  IF PluralFallback(q, exact_match, c.results)
             THEN LET inner == ResultsCalls(corpus, DropLast(q),
                                            FallbackExact(exact_match), limit)
                  IN  [ret |-> inner.ret,
                       calls |-> <<<<q, exact_match>>>> \o inner.calls]
             ELSE [ret |-> Return(c.results, st.exact_match_found, c.has_more, limit),
                   calls |-> <<<<q, exact_match>>>>]

ResultsOver(corpus, q, exact_match, limit) ==
    ResultsCalls(corpus, q, exact_match, limit).ret

_results(q, exact_match, limit) == ResultsOver(entries, q, exact_match, limit)

-----------------------------------------------------------------------------
(* The corpora and the calls of the model *)

MaxDup == 3         \* most rows that share one headword
MaxLimit == 3       \* largest small limit a call passes

CAT == <<99, 97, 116>>

\* gen.py lines 93-110: every row comes from parse_line, whose definition
\* starts with a category; here the category of nouns
NounDef(text) == CAT_N \o <<32>> \o text

\* the j-th row whose headword is "cat" (in varying case), each with its own
\* definition "n. ~ [j]"
EqualRow(j) ==
    Entry(IF j % 2 = 0 THEN <<67, 97, 116>> ELSE CAT,
          NounDef(<<126, 32, 91, 48 + j, 93>>), j)

\* the i-th row that starts with "cat": cata, catb, ...
PrefixRow(i) == Entry(CAT \o <<96 + i>>, NounDef(<<126>>), 0)

\* the i-th row that sorts before "cat" and contains it: at the end
\* ("aaacat", "aabcat", ...) or inside ("aaacatx", ...)
BeforeRow(i, kind) ==
    Entry(<<97, 97 + ((i - 1) \div 26), 97 + ((i - 1) % 26)>> \o CAT
              \o (IF kind = "other" THEN <<120>> ELSE <<>>),
          NounDef(<<91, 126, 93>>), 1)

\* a row that sorts after every "cat..." row and holds the plural: "dcats"
AfterRow == Entry(<<100>> \o CAT \o <<115>>, NounDef(<<126>>), 2)

\* a row that does not contain "cat"
PlainRow == Entry(<<100, 111, 103>>, NounDef(<<126>>), 3)

\* a row with a headword of two words: "hot dog"
MultiWordRow == Entry(<<104, 111, 116, 32, 100, 111, 103>>, NounDef(<<126>>), 4)

Rows(nb, kind, ne, np, na) ==
    [i \in 1..nb |-> BeforeRow(i, kind)]
        \o [j \in 1..ne |-> EqualRow(j)]
        \o [i \in 1..np |-> PrefixRow(i)]
        \o [i \in 1..na |-> AfterRow]
        \o <<PlainRow>>

\* how many rows precede "cat": none, one, and enough to pass each threshold
\* of the early termination
BeforeCounts ==
    {<<0, "ewith">>, <<1, "ewith">>, <<1, "other">>,
     <<base_buffer * 2 + 1, "ewith">>, <<base_buffer * 2 + 1, "other">>,
     <<scan_threshold + 1, "other">>}

PrefixCounts == {0, 1, base_buffer + 1}

\* the corpora: every one is what read_all_entries delivers for its rows
Corpora ==
    {read_all_entries(Rows(b[1], b[2], ne, np, na) \o [i \in 1..nm |-> MultiWordRow]) :
        b \in BeforeCounts, ne \in 0..MaxDup, np \in PrefixCounts, na \in 0..1,
        nm \in 0..1}

\* the queries: "", "cat", "CAT", "cats", "CATS", "at", " " and "ssss"
Queries ==
    {<<>>, CAT, <<67, 65, 84>>, CAT \o <<115>>, <<67, 65, 84, 83>>, <<97, 116>>,
     <<32>>, <<115, 115, 115, 115>>}

Limits == (-1..MaxLimit) \cup {DEFAULT_SEARCH_LIMIT}

NoCall == [q |-> <<>>, exact_match |-> FALSE, limit |-> 0, ret |-> <<>>, done |-> FALSE]

NumCallers == 2     \* concurrent callers of cached_results
MaxCalls == 3       \* cached_results calls in one behaviour

Callers == 1..NumCallers

DEFAULT_SUGGESTION_LIMIT == 10

\* A call of cached_results as written at a call site: its positional
\* arguments and its keyword arguments in the order written.
CallShape(args, kwds) == [args |-> args, kwds |-> kwds]

\* routes/api.py and routes/web.py: the cached_results call each handler makes
CallOf(r) ==
    CASE r.handler = "api_search" -> CallShape(<<r.q>>, <<>>)
      [] r.handler = "api_suggest" ->
            CallShape(<<r.q>>, <<<<"exact_match", FALSE>>, <<"limit", r.limit>>>>)
      [] r.handler = "search" ->
            CallShape(<<Strip(r.q)>>, <<<<"exact_match", FALSE>>, <<"limit", r.limit>>>>)
      [] r.handler = "api_item" ->
            CallShape(<<Strip(r.q)>>, <<<<"exact_match", TRUE>>>>)
      [] r.handler = "api_item_parsed" ->
            CallShape(<<Strip(r.q)>>, <<<<"exact_match", TRUE>>>>)
      [] r.handler = "item" ->
            CallShape(<<r.q>>, <<<<"exact_match", TRUE>>>>)

\* the requests of the model: handler, query and the limit parameter
Requests ==
    [handler : {"api_search"}, q : {CAT, CAT \o <<115>>}, limit : {DEFAULT_SEARCH_LIMIT}]
    \cup [handler : {"api_item", "search"}, q : {CAT}, limit : {DEFAULT_SEARCH_LIMIT}]
    \cup [handler : {"api_suggest"}, q : {CAT}, limit : {DEFAULT_SUGGESTION_LIMIT}]

OX == <<111, 120>>
GO == <<103, 111>>

\* a row whose definition has one category: ox, "n. ~"
NounRow == Entry(OX, <<110, 46, 32, 126>>, 5)

\* a row whose definition has two categories: go, "s. ~; n. [x]"
VerbRow == Entry(GO, <<115, 46, 32, 126, 59, 32, 110, 46, 32, 91, 120, 93>>, 6)

\* a small corpus: cat, dog, go, ox
RouteCorpus == read_all_entries(<<EqualRow(1), PlainRow, VerbRow, NounRow>>)

\* a corpus where a suggestion search stops early: enough entries ending in
\* "cat" before cat, Cat and cata
SuggestCorpus ==
    read_all_entries(
        Rows(base_buffer * 2 + DEFAULT_SUGGESTION_LIMIT - max_exact, "ewith", 2, 1, 0))

\* the requests the router passes to the handlers of routes/api.py
RouteRequests ==
    [handler : {"api_suggest"}, q : {CAT}, limit : {DEFAULT_SUGGESTION_LIMIT}]
    \cup [handler : {"api_item"}, q : {<<32>> \o OX}, limit : {DEFAULT_SEARCH_LIMIT}]
    \cup [handler : {"api_item_parsed"}, q : {OX, CAT}, limit : {DEFAULT_SEARCH_LIMIT}]

SmallSize == 2      \* the maxsize of a cache small enough to evict

ZZ == <<122, 122>>

\* calls of the wrapper cache_response(maxsize) makes of routes/web.py `item`:
\* the Request object passed (named by a number) and the word
ItemRequests ==
    [handler : {"item"}, q : {OX}, request : 1..(SmallSize + 1)]
    \cup [handler : {"item"}, q : {GO, ZZ}, request : {1}]

\* the requests of /page/{n}: "abc", "-1", "0", "1", "707", "708", " 7" and
\* "1_0"
PageRequests ==
    [handler : {"page"},
     q : {<<97, 98, 99>>, <<45, 49>>, <<48>>, <<49>>, <<55, 48, 55>>, <<55, 48, 56>>,
          <<32, 55>>, <<49, 95, 48>>},
     limit : {DEFAULT_SEARCH_LIMIT}]

\* a query of 101 letters
LongWord == [i \in 1..101 |-> 122]

\* the requests of /search: "cat", " zz", "at", "z1", " ", "Qq" and the long
\* query
SearchRequests ==
    [handler : {"search"},
     q : {CAT, <<32>> \o ZZ, <<97, 116>>, <<122, 49>>, <<32>>, <<81, 113>>, LongWord},
     limit : {DEFAULT_SEARCH_LIMIT}]

\* calls of the wrapper the bare @cache_response makes of routes/web.py `index`
IndexRequests == [handler : {"index"}, q : {<<>>}, request : 1..(SmallSize + 1)]

\* functools.lru_cache: the key of a call is made of the arguments as passed,
\* positional ones first, then each keyword with its value
MakeKey(call) == call

\* the value of keyword `name` in a call, or `default`
Kwd(call, name, default) ==
    IF \E i \in 1..Len(call.kwds) : call.kwds[i][1] = name
    THEN call.kwds[CHOOSE i \in 1..Len(call.kwds) : call.kwds[i][1] = name][2]
    ELSE default

\* the parameters (q, exact_match, limit) of cached_results bound from a call
Bind(call) ==
    <<call.args[1],
      IF Len(call.args) >= 2 THEN call.args[2] ELSE Kwd(call, "exact_match", FALSE),
      IF Len(call.args) >= 3 THEN call.args[3]
      ELSE Kwd(call, "limit", DEFAULT_SEARCH_LIMIT)>>

\* the body of cached_results: _results(q, exact_match, limit)
cached_results_body(call) == _results(Bind(call)[1], Bind(call)[2], Bind(call)[3])

AllKeys ==
    {MakeKey(CallOf(r)) : r \in Requests \cup RouteRequests \cup ItemRequests
                                 \cup SearchRequests}

NoCache == <<>>

CacheHas(key) == \E i \in 1..Len(cache) : cache[i].key = key

CacheIndex(key) == CHOOSE i \in 1..Len(cache) : cache[i].key = key

\* C9 mutant: a lookup that never finds the key
CacheHit_Never(key) == FALSE

\* lru_cache: the lookup of a key
CacheHit(key) == CacheHas(key)

\* lru_cache on a hit: the entry becomes the most recently used
Touch(key) ==
    LET i == CacheIndex(key)
    IN  SubSeq(cache, 1, i - 1) \o SubSeq(cache, i + 1, Len(cache)) \o <<cache[i]>>

\* lru_cache after a miss: nothing to do when another caller stored the key
\* meanwhile; else the oldest entry goes when the cache is full, and the new
\* entry is the most recently used
Stored(key, value) ==
    IF CacheHas(key) THEN cache
    ELSE IF Len(cache) >= maxsize
    THEN Append(Tail(cache), [key |-> key, value |-> value])
    ELSE Append(cache, [key |-> key, value |-> value])

\* history: an evicted key starts afresh
InvokedAfterStore(key) ==
    IF ~CacheHas(key) /\ Len(cache) >= maxsize
    THEN [invoked EXCEPT ![cache[1].key] = 0]
    ELSE invoked

\* MISSING_WORDS_FILE does not exist
NoFile == [exists |-> FALSE, size |-> 0, lines |-> <<>>]

\* no call has been made
NothingCalled ==
    /\ cache = NoCache
    /\ pc = [c \in Callers |-> "idle"]
    /\ req = [c \in Callers |-> <<>>]
    /\ ret = [c \in Callers |-> <<>>]
    /\ invoked = [k \in AllKeys |-> 0]
    /\ ncalls = 0
    /\ resp = [c \in Callers |-> [kind |-> "none", status |-> 0, content |-> <<>>]]
    /\ wcache = <<>>
    /\ wlock = 0
    /\ wcalls = 0
    /\ hist = [lru |-> <<>>, wrapper |-> <<>>]
    /\ mfile = NoFile
    /\ wd = NotParsed

\* ... and no source line is at hand
IdleCallers == NothingCalled /\ line = <<>>

Init ==
    /\ entries \in Corpora
    /\ last = NoCall
    /\ sched = "coroutines"
    /\ maxsize = SEARCH_CACHE_SIZE
    /\ wmaxsize = SEARCH_CACHE_SIZE
    /\ IdleCallers

\* a direct call _results(q, exact_match, limit), and what it returns
Search(q, exact_match, limit) ==
    /\ ~last.done
    /\ last' = [q |-> q, exact_match |-> exact_match, limit |-> limit,
                ret |-> _results(q, exact_match, limit), done |-> TRUE]
    /\ UNCHANGED <<entries, cache, pc, req, ret, invoked, sched, ncalls>>
    /\ UNCHANGED routevars

\* the caller drops the returned tuple
Discard ==
    /\ last.done
    /\ last' = NoCall
    /\ UNCHANGED <<entries, cache, pc, req, ret, invoked, sched, ncalls>>
    /\ UNCHANGED routevars

Next ==
    \/ \E q \in Queries, e \in BOOLEAN, l \in Limits : Search(q, e, l)
    \/ Discard

Spec == Init /\ [][Next]_vars

-----------------------------------------------------------------------------
(* The same calls over a corpus in any iteration order *)

OrderRows == 3      \* rows of a corpus whose order is free

RowPool ==
    {EqualRow(1), EqualRow(2), PrefixRow(1), PrefixRow(2),
     BeforeRow(1, "ewith"), BeforeRow(2, "ewith"),
     BeforeRow(1, "other"), BeforeRow(2, "other")}

AnyOrderCorpora ==
    {s \in [1..OrderRows -> RowPool] : \A i, j \in 1..OrderRows : i # j => s[i] # s[j]}

InitAnyOrder ==
    /\ entries \in AnyOrderCorpora
    /\ last = NoCall
    /\ sched = "coroutines"
    /\ maxsize = SEARCH_CACHE_SIZE
    /\ wmaxsize = SEARCH_CACHE_SIZE
    /\ IdleCallers

NextAnyOrder ==
    \/ \E q \in {CAT, CAT \o <<115>>}, e \in BOOLEAN, l \in Limits : Search(q, e, l)
    \/ Discard

SpecAnyOrder == InitAnyOrder /\ [][NextAnyOrder]_vars

-----------------------------------------------------------------------------
(* cached_results and its callers *)

\* A handler on the event loop calls cached_results: the call has no await in
\* it, so lookup, computation and store are one step of the program.
Handle(c, r) ==
    LET key == MakeKey(CallOf(r))
    IN  /\ sched = "coroutines"
        /\ pc[c] = "idle"
        /\ ncalls < MaxCalls
        /\ ncalls' = ncalls + 1
        /\ req' = [req EXCEPT ![c] = r]
        /\ IF CacheHit(key)
           THEN /\ ret' = [ret EXCEPT ![c] = cache[CacheIndex(key)].value]
                /\ cache' = Touch(key)
                /\ UNCHANGED invoked
           ELSE LET value == cached_results_body(CallOf(r))
                IN  /\ ret' = [ret EXCEPT ![c] = value]
                    /\ cache' = Stored(key, value)
                    /\ invoked' = [InvokedAfterStore(key) EXCEPT ![key] = @ + 1]
        /\ UNCHANGED <<entries, last, pc, sched>>
        /\ UNCHANGED routevars

\* A thread calls cached_results: lru_cache looks the key up under its lock
Lookup(c, r) ==
    LET key == MakeKey(CallOf(r))
    IN  /\ sched = "threads"
        /\ pc[c] = "idle"
        /\ ncalls < MaxCalls
        /\ ncalls' = ncalls + 1
        /\ req' = [req EXCEPT ![c] = r]
        /\ IF CacheHit(key)
           THEN /\ ret' = [ret EXCEPT ![c] = cache[CacheIndex(key)].value]
                /\ cache' = Touch(key)
                /\ UNCHANGED pc
           ELSE /\ pc' = [pc EXCEPT ![c] = "miss"]
                /\ UNCHANGED <<ret, cache>>
        /\ UNCHANGED <<entries, last, invoked, sched>>
        /\ UNCHANGED routevars

\* ... calls the wrapped function with the lock released
Compute(c) ==
    /\ pc[c] = "miss"
    /\ ret' = [ret EXCEPT ![c] = cached_results_body(CallOf(req[c]))]
    /\ invoked' = [invoked EXCEPT ![MakeKey(CallOf(req[c]))] = @ + 1]
    /\ pc' = [pc EXCEPT ![c] = "computed"]
    /\ UNCHANGED <<entries, last, cache, req, sched, ncalls>>
    /\ UNCHANGED routevars

\* ... and stores the value under the lock, unless the key is there by now
Store(c) ==
    LET key == MakeKey(CallOf(req[c]))
    IN  /\ pc[c] = "computed"
        /\ cache' = Stored(key, ret[c])
        /\ invoked' = InvokedAfterStore(key)
        /\ pc' = [pc EXCEPT ![c] = "idle"]
        /\ UNCHANGED <<entries, last, req, ret, sched, ncalls>>
        /\ UNCHANGED routevars

CacheCorpus == read_all_entries(Rows(1, "ewith", 2, 1, 0))

InitCache ==
    /\ entries = CacheCorpus
    /\ last = NoCall
    /\ sched \in {"coroutines", "threads"}
    /\ maxsize = SEARCH_CACHE_SIZE
    /\ wmaxsize = SEARCH_CACHE_SIZE
    /\ IdleCallers

NextCache ==
    \/ \E c \in Callers, r \in Requests : Handle(c, r)
    \/ \E c \in Callers, r \in Requests : Lookup(c, r)
    \/ \E c \in Callers : Compute(c)
    \/ \E c \in Callers : Store(c)

SpecCache == InitCache /\ [][NextCache]_vars

-----------------------------------------------------------------------------
(* gen.py read_all_entries: a source line is parsed *)

MaxTokens == 3      \* most tokens of a source line

\* the tokens of the lines: cat, ice, n., s., (junk), cat with a byte-order
\* mark, a byte-order mark alone, and "n.x"
Tokens ==
    {CAT, <<105, 99, 101>>, CAT_N, CAT_S, <<40, 106, 117, 110, 107, 41>>,
     <<BOM>> \o CAT, <<BOM>>, CAT_N \o <<120>>}

\* the lines: up to MaxTokens tokens, separated by a space or by a space and a
\* tab, with or without a space in front
Lines ==
    {lead \o Join(sep, t) :
        lead \in {<<>>, <<32>>}, sep \in {<<32>>, <<32, 9>>},
        t \in UNION {[1..n -> Tokens] : n \in 1..MaxTokens}}

InitParse ==
    /\ entries = <<>>
    /\ last = NoCall
    /\ sched = "coroutines"
    /\ maxsize = SEARCH_CACHE_SIZE
    /\ wmaxsize = SEARCH_CACHE_SIZE
    /\ NothingCalled
    /\ line \in Lines

\* gen.py line 99: wd = parse_line(line)
Parse ==
    /\ ~wd.done
    /\ wd' = parse_line(line)
    /\ UNCHANGED <<entries, last, cache, pc, req, ret, invoked, sched, ncalls>>
    /\ UNCHANGED <<maxsize, resp, wmaxsize, wcache, wlock, wcalls, hist, mfile, line>>

NextParse == Parse

SpecParse == InitParse /\ [][NextParse]_vars

-----------------------------------------------------------------------------
(* The handlers of routes/api.py and routes/web.py *)

NoResponse == [kind |-> "none", status |-> 0, content |-> <<>>]

\* JSONResponse(content=...): the content is rendered when the response is made
JSONResponse(content) == [kind |-> "json", status |-> 200, content |-> content]

\* routes/core.py err_resp
err_resp(msg) == JSONResponse([error |-> TRUE, errmsg |-> msg])

\* TemplateResponse(name, context)
TemplateResponse(name, context) == [kind |-> name, status |-> 200, content |-> context]

\* an exception leaves the handler
Raised(exc, status) == [kind |-> exc, status |-> status, content |-> <<>>]

IsRaised(response) == response.kind \in {"KeyError", "HTTPException"}

\* result["parsed"] = comp: the dict keeps its keys and has the key "parsed"
WithParsed(result, comp) ==
    [word |-> result.word, def |-> result.def,
     ipa_uk |-> result.ipa_uk, ipa_us |-> result.ipa_us,
     audio_uk |-> result.audio_uk, audio_us |-> result.audio_us,
     page_num |-> result.page_num, page_url |-> result.page_url,
     parsed |-> comp]

\* What a handler does with the tuple cached_results returned: its response and
\* the tuple as the handler leaves it (`written` tells that results[0] was
\* written to).

\* routes/api.py lines 45-46
api_suggest(r, value) ==
    [resp |-> JSONResponse(SliceTo([i \in 1..Len(value[1]) |-> value[1][i].word],
                                   r.limit)),
     value |-> value, written |-> FALSE]

\* routes/api.py line 55
api_search(r, value) ==
    [resp |-> JSONResponse([results |-> value[1]]), value |-> value, written |-> FALSE]

\* routes/api.py lines 65-68
api_item(r, value) ==
    [resp |-> IF Len(value[1]) = 0 \/ ~value[2]
              THEN err_resp(<<"No entry found for", Strip(r.q)>>)
              ELSE JSONResponse(value[1][1]),
     value |-> value, written |-> FALSE]

\* routes/api.py lines 78-91
api_item_parsed(r, value) ==
    IF Len(value[1]) = 0 \/ ~value[2]
    THEN [resp |-> err_resp(<<"No entry found for", Strip(r.q)>>),
          value |-> value, written |-> FALSE]
    ELSE LET result == value[1][1]
             comp == unpack_definition(result.def)
         IN  IF TranslateRaises(comp)
             THEN [resp |-> Raised("KeyError", 500), value |-> value, written |-> FALSE]
             ELSE LET parsed == WithParsed(result, Translate(comp))
                  IN  [resp |-> JSONResponse(parsed),
                       value |-> <<[value[1] EXCEPT ![1] = parsed], value[2], value[3]>>,
                       written |-> TRUE]

\* routes/web.py lines 139-162 (the synonyms, read from a data file, are left
\* out of the context)
item(r, value) ==
    [resp |-> IF Len(value[1]) = 0 THEN Raised("HTTPException", 404)
              ELSE LET comp == unpack_definition(value[1][1].def)
                   IN  IF TranslateRaises(comp) THEN Raised("KeyError", 500)
                       ELSE TemplateResponse("item.html",
                                [request |-> r.request, q |-> r.q,
                                 results |-> value[1], comp |-> Translate(comp)]),
     value |-> value, written |-> FALSE]

\* routes/web.py lines 62-70
index(r) == TemplateResponse("index.html", [request |-> r.request])

\* routes/web.py lines 168-186 (and app.py lines 354-369): r.q is the path
\* parameter n (the Request object and the title are left out of the context)
page(r) ==
    IF IntRaises(r.q) THEN Raised("HTTPException", 500)
    ELSE LET page_num == IntOf(r.q)
         IN  IF page_num < 1 \/ page_num > 707 THEN Raised("HTTPException", 404)
             ELSE TemplateResponse("page.html",
                      [n |-> page_num, npad |-> Format03(page_num - 1)])

MISSING_WORD_MAXLEN == 100
MISSING_WORDS_MAX_SIZE == 1000000

\* routes/core.py line 99: the words of missing.txt; the model has one, "qq"
KNOWN_MISSING_WORDS == {<<113, 113>>}

\* re.match(r"^[a-zA-Z]+$", q): letters only, `$` also matching in front of a
\* final newline
MatchesLetters(q) ==
    LET body == IF q # <<>> /\ q[Len(q)] = 10 THEN DropLast(q) ELSE q
    IN  /\ body # <<>>
        /\ \A i \in 1..Len(body) : body[i] \in (65..90) \cup (97..122)

\* C29 mutant: every search counts as one that missed
MightBeMissing_Always(results, exact) == TRUE

\* routes/web.py line 109: `not exact or not results`
MightBeMissing(results, exact) == ~exact \/ Len(results) = 0

\* routes/web.py lines 109-111: the search goes on to _save_missing_word
SavesWord(r, value) ==
    /\ Strip(r.q) # <<>>
    /\ MightBeMissing(value[1], value[2])
    /\ MatchesLetters(Strip(r.q))
    /\ Lower(Strip(r.q)) \notin KNOWN_MISSING_WORDS

\* routes/web.py lines 101-130: the response of search (the Request object
\* and the title are left out of the context); value is the tuple
\* cached_results returned, or the empty one when q is empty
search(r, value) ==
    [resp |-> TemplateResponse("result.html",
                  [q |-> Strip(r.q), results |-> value[1], exact |-> value[2],
                   limit |-> r.limit, has_more |-> value[3]]),
     value |-> value, written |-> FALSE]

Body(r, value) ==
    CASE r.handler = "api_suggest" -> api_suggest(r, value)
      [] r.handler = "search" -> search(r, value)
      [] r.handler = "api_search" -> api_search(r, value)
      [] r.handler = "api_item" -> api_item(r, value)
      [] r.handler = "api_item_parsed" -> api_item_parsed(r, value)
      [] r.handler = "item" -> item(r, value)

\* `index` and `page` do not call cached_results, `search` does when the
\* stripped query is not empty
CallsCachedResults(r) ==
    /\ r.handler \notin {"index", "page"}
    /\ r.handler = "search" => Strip(r.q) # <<>>

\* history: key is the most recently looked-up key of `order`
Recent(order, key) == SelectSeq(order, LAMBDA k : k # key) \o <<key>>

\* The tuple cached_results returns is the object the cache holds: what the
\* handler writes to it is written to the cached value.
SetValue(c, key, value) ==
    [i \in 1..Len(c) |-> IF c[i].key = key THEN [key |-> key, value |-> value] ELSE c[i]]

\* A handler run from its call to its return, none of which awaits: its
\* response, the tuple cached_results returned (`ret`), that tuple as the
\* handler leaves it (`value`), and the lru_cache as the handler leaves it.
Run(r) ==
    IF ~CallsCachedResults(r)
    THEN [resp |-> CASE r.handler = "index" -> index(r)
                     [] r.handler = "page" -> page(r)
                     [] r.handler = "search" -> search(r, <<<<>>, FALSE, FALSE>>).resp,
          ret |-> <<>>, value |-> <<>>, written |-> FALSE,
          cache |-> cache, invoked |-> invoked, lru |-> hist.lru]
    ELSE LET call == CallOf(r)
             key == MakeKey(call)
             hit == CacheHit(key)
             value == IF hit THEN cache[CacheIndex(key)].value
                      ELSE cached_results_body(call)
             body == Body(r, value)
         IN  [resp |-> body.resp, ret |-> value, value |-> body.value,
              written |-> body.written,
              cache |-> SetValue(IF hit THEN Touch(key) ELSE Stored(key, value),
                                 key, body.value),
              invoked |-> IF hit THEN invoked
                          ELSE [InvokedAfterStore(key) EXCEPT ![key] = @ + 1],
              lru |-> Recent(hist.lru, key)]

\* C19 mutant: _format_item hands out the entry itself
ItemIsEntry_Aliased == TRUE

\* routes/core.py lines 148-158: _format_item builds a new dict, so the item a
\* handler writes to is not the entry it was made from
ItemIsEntry == FALSE

\* the corpus after a handler wrote `parsed` to its first result
EntriesAfter(run) ==
    IF run.written /\ ItemIsEntry
    THEN [i \in 1..Len(entries) |->
            IF entries[i].word = run.value[1][1].word
                   /\ entries[i].page_num = run.value[1][1].page_num
            THEN [word |-> entries[i].word, definition |-> entries[i].definition,
                  ipa_uk |-> entries[i].ipa_uk, ipa_us |-> entries[i].ipa_us,
                  page_num |-> entries[i].page_num,
                  parsed |-> run.value[1][1].parsed]
            ELSE entries[i]]
    ELSE entries

\* The router calls a handler of routes/api.py: the undecorated function, which
\* `@router.get` registered before `@cache_response` wrapped it.
Serve(c, r) ==
    /\ pc[c] = "idle"
    /\ ncalls < MaxCalls
    /\ ncalls' = ncalls + 1
    /\ req' = [req EXCEPT ![c] = r]
    /\ \E run \in {Run(r)} :
        /\ ret' = [ret EXCEPT ![c] = run.ret]
        /\ resp' = [resp EXCEPT ![c] = run.resp]
        /\ cache' = run.cache
        /\ invoked' = run.invoked
        /\ hist' = [hist EXCEPT !.lru = run.lru]
        /\ entries' = EntriesAfter(run)
    /\ UNCHANGED <<last, pc, sched, maxsize, wmaxsize, wcache, wlock, wcalls>>
    /\ UNCHANGED <<mfile, line, wd>>

InitRoutes ==
    /\ entries \in {RouteCorpus, SuggestCorpus}
    /\ last = NoCall
    /\ sched = "coroutines"
    /\ maxsize = SEARCH_CACHE_SIZE
    /\ wmaxsize = SEARCH_CACHE_SIZE
    /\ IdleCallers

NextRoutes == \E c \in Callers, r \in RouteRequests \cup PageRequests : Serve(c, r)

SpecRoutes == InitRoutes /\ [][NextRoutes]_vars

-----------------------------------------------------------------------------
(* util.py: cache_response *)

\* maxsize is None: the bare @cache_response, or cache_response() without size
Unbounded == -1

\* hashkey(*args, **kwargs): the tuple of the arguments; a Request object
\* equals only itself
WKey(r) == IF r.handler = "index" THEN <<r.request>> ELSE <<r.request, r.q>>

\* key in cache
WHas(key) == \E i \in 1..Len(wcache) : wcache[i].key = key

WIndex(key) == CHOOSE i \in 1..Len(wcache) : wcache[i].key = key

\* C13 mutant: a hit leaves the entry where it is
WTouch_Stay(key) == wcache

\* lines 184-185 and 207-208: value = cache.pop(key); cache[key] = value
WTouch(key) ==
    LET i == WIndex(key)
    IN  SubSeq(wcache, 1, i - 1) \o SubSeq(wcache, i + 1, Len(wcache)) \o <<wcache[i]>>

\* C12 mutant: the newest entry is removed
WEvict_Newest(c) == SubSeq(c, 1, Len(c) - 1)

\* lines 216-219: cache.popitem(last=False)
WEvict(c) == Tail(c)

\* C18 mutant: what the function raised is stored like a result
WStores_Always(response) == TRUE

\* lines 189-190 and 212-213: the assignment to cache[key] is reached only
\* when `await func(...)` returned
WStores(response) == ~IsRaised(response)

\* lines 190 and 213-219: cache[key] = result, then the eviction that only the
\* wrapper with a maxsize has
WStored(key, result) ==
    LET c == Append(wcache, [key |-> key, value |-> result])
    IN  IF wmaxsize # Unbounded /\ Len(c) > wmaxsize THEN WEvict(c) ELSE c

\* the calls the callers make of the wrapper of this behaviour: of the wrapped
\* `index` for the bare form, of the wrapped `item` for the form with maxsize.
\* A caller may pass a Request object it passed before.
WRequests == IF wmaxsize = Unbounded THEN IndexRequests ELSE ItemRequests

\* C24 mutant: `async with lock` lets a caller in while another holds the lock
LockFree_Always == TRUE

\* lines 182 and 205: `async with lock` is passed when no caller holds the lock
LockFree == wlock = 0

\* A caller enters the wrapper: `async with lock` is passed when the lock is
\* free (a caller that finds it taken waits in front of it); a hit returns at
\* once, a miss calls the wrapped function with the lock held.
WEnter(c, r) ==
    LET key == WKey(r)
    IN  /\ pc[c] = "idle"
        /\ LockFree
        /\ ncalls < SmallSize + 2
        /\ ncalls' = ncalls + 1
        /\ req' = [req EXCEPT ![c] = r]
        /\ IF WHas(key)
           THEN /\ resp' = [resp EXCEPT ![c] = wcache[WIndex(key)].value]
                /\ wcache' = WTouch(key)
                /\ hist' = [hist EXCEPT !.wrapper = Recent(@, key)]
                /\ UNCHANGED <<pc, wlock, wcalls>>
           ELSE /\ pc' = [pc EXCEPT ![c] = "func"]
                /\ wlock' = c
                /\ wcalls' = wcalls + 1
                /\ UNCHANGED <<resp, wcache, hist>>
        /\ UNCHANGED <<entries, last, cache, ret, invoked, sched, maxsize, wmaxsize>>
        /\ UNCHANGED <<mfile, line, wd>>

\* The wrapped function returns or raises: a result is stored, an exception
\* passes through; leaving `async with` releases the lock either way.
WFinish(c) ==
    /\ pc[c] = "func"
    /\ wlock = c
    /\ pc' = [pc EXCEPT ![c] = "idle"]
    /\ wlock' = 0
    /\ \E run \in {Run(req[c])}, key \in {WKey(req[c])} :
        /\ resp' = [resp EXCEPT ![c] = run.resp]
        /\ ret' = [ret EXCEPT ![c] = run.ret]
        /\ cache' = run.cache
        /\ invoked' = run.invoked
        /\ IF WStores(run.resp)
           THEN /\ wcache' = WStored(key, run.resp)
                /\ hist' = [lru |-> run.lru, wrapper |-> Recent(hist.wrapper, key)]
           ELSE /\ wcache' = wcache
                /\ hist' = [hist EXCEPT !.lru = run.lru]
    /\ UNCHANGED <<entries, last, req, sched, ncalls, maxsize, wmaxsize, wcalls>>
    /\ UNCHANGED <<mfile, line, wd>>

InitEvict ==
    /\ entries = RouteCorpus
    /\ last = NoCall
    /\ sched = "coroutines"
    /\ maxsize = SmallSize
    /\ wmaxsize \in {SmallSize, Unbounded}
    /\ IdleCallers

NextEvict ==
    \/ \E c \in Callers, r \in WRequests : WEnter(c, r)
    \/ \E c \in Callers : WFinish(c)

SpecEvict == InitEvict /\ [][NextEvict]_vars

-----------------------------------------------------------------------------
(* The two caches and their locks: cache_response around a handler called by
   coroutines, lru_cache around _results called by coroutines or by threads *)

\* the calls threads make of cached_results
ThreadRequests ==
    [handler : {"api_item_parsed"}, q : {OX, CAT}, limit : {DEFAULT_SEARCH_LIMIT}]

InitSerial ==
    /\ entries = RouteCorpus
    /\ last = NoCall
    /\ sched \in {"coroutines", "threads"}
    /\ maxsize = SmallSize
    /\ wmaxsize = SmallSize
    /\ IdleCallers

NextSerial ==
    \/ sched = "coroutines" /\ \E c \in Callers, r \in ItemRequests : WEnter(c, r)
    \/ sched = "coroutines" /\ \E c \in Callers : WFinish(c)
    \/ \E c \in Callers, r \in ThreadRequests : Lookup(c, r)
    \/ \E c \in Callers : Compute(c)
    \/ \E c \in Callers : Store(c)

SpecSerial == InitSerial /\ [][NextSerial]_vars

-----------------------------------------------------------------------------
(* routes/web.py: search and _save_missing_word *)

MaxSearches == 2    \* calls of search in one behaviour

\* lines 101-113: search up to its first await: the query is stripped,
\* cached_results is called when it is not empty, and the handler either
\* returns its response or goes on to `await _save_missing_word(q)`
SearchCall(c, r) ==
    /\ pc[c] = "idle"
    /\ ncalls < MaxSearches
    /\ ncalls' = ncalls + 1
    /\ req' = [req EXCEPT ![c] = r]
    /\ \E run \in {Run(r)} :
        /\ ret' = [ret EXCEPT ![c] = run.ret]
        /\ cache' = run.cache
        /\ invoked' = run.invoked
        /\ hist' = [hist EXCEPT !.lru = run.lru]
        /\ IF CallsCachedResults(r) /\ SavesWord(r, run.ret)
           THEN /\ pc' = [pc EXCEPT ![c] = "getsize"]
                /\ UNCHANGED resp
           ELSE /\ resp' = [resp EXCEPT ![c] = run.resp]
                /\ UNCHANGED pc
    /\ UNCHANGED <<entries, last, sched, maxsize, wmaxsize, wcache, wlock, wcalls>>
    /\ UNCHANGED <<mfile, line, wd>>

\* lines 80-85: `await getsize(...)` has returned or raised FileNotFoundError:
\* a file larger than the limit ends the save, and search returns
GetSize(c) ==
    /\ pc[c] = "getsize"
    /\ IF mfile.exists /\ mfile.size > MISSING_WORDS_MAX_SIZE
       THEN /\ pc' = [pc EXCEPT ![c] = "idle"]
            /\ resp' = [resp EXCEPT ![c] = search(req[c], ret[c]).resp]
       ELSE /\ pc' = [pc EXCEPT ![c] = "write"]
            /\ UNCHANGED resp
    /\ UNCHANGED <<entries, last, cache, req, ret, invoked, sched, ncalls>>
    /\ UNCHANGED <<maxsize, wmaxsize, wcache, wlock, wcalls, hist, mfile, line, wd>>

\* lines 87-89: the file is opened for appending and the first
\* MISSING_WORD_MAXLEN characters of the word and a newline are written
WriteWord(c) ==
    /\ pc[c] = "write"
    /\ \E word \in {SliceTo(Strip(req[c].q), MISSING_WORD_MAXLEN)} :
        mfile' = [exists |-> TRUE, size |-> mfile.size + Len(word) + 1,
                  lines |-> Append(mfile.lines, word)]
    /\ pc' = [pc EXCEPT ![c] = "idle"]
    /\ resp' = [resp EXCEPT ![c] = search(req[c], ret[c]).resp]
    /\ UNCHANGED <<entries, last, cache, req, ret, invoked, sched, ncalls>>
    /\ UNCHANGED <<maxsize, wmaxsize, wcache, wlock, wcalls, hist, line, wd>>

\* lines 90-91: opening or writing raised, and the exception is swallowed
WriteFails(c) ==
    /\ pc[c] = "write"
    /\ pc' = [pc EXCEPT ![c] = "idle"]
    /\ resp' = [resp EXCEPT ![c] = search(req[c], ret[c]).resp]
    /\ UNCHANGED <<entries, last, cache, req, ret, invoked, sched, ncalls>>
    /\ UNCHANGED <<maxsize, wmaxsize, wcache, wlock, wcalls, hist, mfile, line, wd>>

\* the missing-words file when the server starts: absent, or left by earlier
\* runs at, just below or just above the limit (`lines` holds the lines
\* appended since)
FilesAtStart ==
    {NoFile} \cup
    {[exists |-> TRUE, size |-> n, lines |-> <<>>] :
        n \in {MISSING_WORDS_MAX_SIZE - 1, MISSING_WORDS_MAX_SIZE,
               MISSING_WORDS_MAX_SIZE + 1}}

InitMissing ==
    /\ entries = RouteCorpus
    /\ last = NoCall
    /\ sched = "coroutines"
    /\ maxsize = SEARCH_CACHE_SIZE
    /\ wmaxsize = SEARCH_CACHE_SIZE
    /\ cache = NoCache
    /\ pc = [c \in Callers |-> "idle"]
    /\ req = [c \in Callers |-> <<>>]
    /\ ret = [c \in Callers |-> <<>>]
    /\ invoked = [k \in AllKeys |-> 0]
    /\ ncalls = 0
    /\ resp = [c \in Callers |-> [kind |-> "none", status |-> 0, content |-> <<>>]]
    /\ wcache = <<>>
    /\ wlock = 0
    /\ wcalls = 0
    /\ hist = [lru |-> <<>>, wrapper |-> <<>>]
    /\ mfile \in FilesAtStart
    /\ wd = NotParsed
    /\ line = <<>>

NextMissing ==
    \/ \E c \in Callers, r \in SearchRequests : SearchCall(c, r)
    \/ \E c \in Callers : GetSize(c)
    \/ \E c \in Callers : WriteWord(c)
    \/ \E c \in Callers : WriteFails(c)

SpecMissing == InitMissing /\ [][NextMissing]_vars

-----------------------------------------------------------------------------
(* What the claims speak of *)

\* entry i matches query q in the given mode
Matches(i, q, exact_match) ==
    IF exact_match
    THEN Lower(entries[i].word) = Lower(q)
    ELSE Contains(Lower(entries[i].word), Lower(q))

\* the unrestricted match count
MatchCount(q, exact_match) ==
    Cardinality({i \in 1..Len(entries) : Matches(i, q, exact_match)})

\* the corpus holds an entry whose lower-cased word is the lower-cased query
HasEqual(q) == \E i \in 1..Len(entries) : Lower(entries[i].word) = Lower(q)

\* bucket of a word relative to a query: Equal < PrefixMatch < SuffixMatch < Other
Bucket(w, q) ==
    LET wl == Lower(w)
        ql == Lower(q)
    IN  IF wl = ql THEN 0
        ELSE IF StartsWith(wl, ql) THEN 1
        ELSE IF EndsWith(wl, ql) THEN 2
        ELSE 3

\* the finished call took the plural fallback
TookFallback ==
    /\ last.done
    /\ ~last.exact_match
    /\ Len(last.q) >= 3
    /\ last.q[Len(last.q)] = 115
    /\ MatchCount(last.q, FALSE) = 0

Results == last.ret[1]
ExactFound == last.ret[2]
HasMore == last.ret[3]

\* C1: a limited non-exact search of a matching query returns the first `limit`
\* elements of the unlimited search.
C1_LimitIsPrefixOfUnlimited ==
    (last.done /\ ~last.exact_match /\ last.limit > 0
        /\ MatchCount(last.q, FALSE) >= 1)
    => Results = SliceTo(_results(last.q, FALSE, 0)[1], last.limit)

\* C2: when the plural fallback is not taken, exactFound is true exactly when
\* the corpus holds an entry whose lower-cased word is the lower-cased query.
C2_ExactFoundIffEqualEntry ==
    (last.done /\ last.q # <<>> /\ ~TookFallback)
    => (ExactFound <=> HasEqual(last.q))

\* C3: for limit > 0, hasMore is true exactly when the unrestricted match count
\* of the requested mode exceeds limit (stated for the calls that do not take
\* the plural fallback, where the requested mode is the mode searched).
C3_HasMoreIffCountExceedsLimit ==
    (last.done /\ last.q # <<>> /\ last.limit > 0 /\ ~TookFallback)
    => (HasMore <=> MatchCount(last.q, last.exact_match) > last.limit)

\* C4: in a non-exact result list, in any corpus order, an earlier result has a
\* bucket no greater than a later one and, in the same bucket, a lower-cased
\* word no greater.
C4_BucketThenAlphabetical ==
    (last.done /\ ~last.exact_match)
    => \A i, j \in 1..Len(Results) :
          i < j =>
              /\ Bucket(Results[i].word, last.q) <= Bucket(Results[j].word, last.q)
              /\ Bucket(Results[i].word, last.q) = Bucket(Results[j].word, last.q)
                    => StrLE(Lower(Results[i].word), Lower(Results[j].word))

\* C4 witness: a call over a corpus that is not in sorted order returned results
\* of two buckets, two of them in one bucket.
C4_Witness ==
    /\ last.done /\ ~last.exact_match /\ Len(Results) >= 3
    /\ \E i \in 1..(Len(entries) - 1) :
          ~StrLE(SortKey(entries[i]), SortKey(entries[i + 1]))
    /\ \E i, j \in 1..Len(Results) :
          Bucket(Results[i].word, last.q) # Bucket(Results[j].word, last.q)
    /\ \E i, j \in 1..Len(Results) :
          /\ i < j
          /\ Bucket(Results[i].word, last.q) = Bucket(Results[j].word, last.q)
          /\ Results[i].word # Results[j].word

\* C5: an exact lookup with limit > 0 returns the first `limit` of all entries
\* equal to the query, however many duplicates there are.
C5_ExactReturnsAllDuplicates ==
    (last.done /\ last.exact_match /\ last.limit > 0)
    => Results = SliceTo(_results(last.q, TRUE, 0)[1], last.limit)

\* C6: every result of an exact call has a lower-cased word equal to the
\* lower-cased query; every result of a plural fallback has one equal to the
\* lower-cased query without its trailing 's'.
C6_ExactResultsEqualQuery ==
    /\ (last.done /\ last.exact_match)
        => \A i \in 1..Len(Results) : Lower(Results[i].word) = Lower(last.q)
    /\ TookFallback
        => \A i \in 1..Len(Results) : Lower(Results[i].word) = Lower(DropLast(last.q))

\* C6 witness: an exact call returned results out of a corpus that holds other
\* entries containing the query.
C6_Witness ==
    /\ last.done /\ last.exact_match /\ Len(Results) >= 1
    /\ MatchCount(last.q, FALSE) > MatchCount(last.q, TRUE)

\* C7: for limit > 0 the result list has at most `limit` elements.
C7_AtMostLimitResults ==
    (last.done /\ last.limit > 0) => Len(Results) <= last.limit

\* C7 witness: the corpus holds more entries equal to the query than the limit
\* allows, and the call returned `limit` results.
C7_Witness ==
    /\ last.done /\ last.limit > 0 /\ ~last.exact_match
    /\ MatchCount(last.q, TRUE) > last.limit
    /\ Len(Results) = last.limit

\* C8: a query of length >= 3 ending in 's' that no entry contains returns what
\* the exact search of the query without its last character returns; when the
\* corpus holds entries equal to the singular, the result is those entries (the
\* first `limit` of them for limit > 0) with exactFound true.
C8_PluralFallback ==
    TookFallback
    => /\ last.ret = _results(DropLast(last.q), TRUE, last.limit)
       /\ HasEqual(DropLast(last.q))
            => /\ ExactFound
               /\ Results = (LET all == _results(DropLast(last.q), TRUE, 0)[1]
                             IN  IF last.limit > 0 THEN SliceTo(all, last.limit) ELSE all)

\* C8, its first part alone: the fallback returns what the exact search of the
\* singular returns.
C8_FallbackIsExactSearchOfSingular ==
    TookFallback => last.ret = _results(DropLast(last.q), TRUE, last.limit)

\* the _results invocations made for the calls whose parameters are `triple`
RECURSIVE SumInvoked(_, _)
SumInvoked(keys, triple) ==
    IF keys = {} THEN 0
    ELSE LET k == CHOOSE x \in keys : TRUE
         IN  (IF Bind(k) = triple THEN invoked[k] ELSE 0)
                 + SumInvoked(keys \ {k}, triple)

Triples == {Bind(k) : k \in AllKeys}

C10_KeyIsValueTriple ==
    sched = "coroutines"
    => \A t \in Triples : SumInvoked(AllKeys, t) <= 1

\* C15: a query made only of whitespace characters returns ([], False, False),
\* whatever the corpus (multi-word headwords included), mode and limit.
C15_WhitespaceQueryIsEmpty ==
    (last.done /\ last.q # <<>> /\ \A i \in 1..Len(last.q) : IsSpace(last.q[i]))
    => last.ret = <<<<>>, FALSE, FALSE>>

\* the entries that match q in the given mode and fall in bucket b, in corpus
\* order
InBucket(q, exact_match, b) ==
    LET Test(k) ==
            /\ IF exact_match THEN Lower(k.word) = Lower(q)
               ELSE Contains(Lower(k.word), Lower(q))
            /\ Bucket(k.word, q) = b
    IN  SelectSeq(entries, Test)

\* every matching entry in ranked order: bucket, then lower-cased word, then
\* corpus order
Ranked(q, exact_match) ==
    FormatAll(SortByWord(InBucket(q, exact_match, 0))
                \o SortByWord(InBucket(q, exact_match, 1))
                \o SortByWord(InBucket(q, exact_match, 2))
                \o SortByWord(InBucket(q, exact_match, 3)))

\* C16: with limit <= 0 a non-empty query returns every matching entry in
\* ranked order (those of the exact search of the singular when the plural
\* fallback is taken) and hasMore is false.
C16_NonPositiveLimitReturnsAll ==
    (last.done /\ last.q # <<>> /\ last.limit <= 0)
    => /\ ~HasMore
       /\ Results = IF TookFallback
                    THEN Ranked(DropLast(last.q), TRUE)
                    ELSE Ranked(last.q, last.exact_match)

\* C16 witness: a call with a negative limit returned more than two entries of
\* more than one bucket.
C16_Witness ==
    /\ last.done /\ last.limit < 0 /\ Len(Results) > 2
    /\ \E i, j \in 1..Len(Results) :
          Bucket(Results[i].word, last.q) # Bucket(Results[j].word, last.q)

\* C17: the empty query returns ([], False, False), whatever the corpus, mode
\* and limit.
C17_EmptyQueryReturnsNothing ==
    (last.done /\ last.q = <<>>) => last.ret = <<<<>>, FALSE, FALSE>>

\* C17 witness: the empty query was searched in substring mode without limit
\* over a corpus of several entries, each of which contains the empty string.
C17_Witness ==
    /\ last.done /\ last.q = <<>> /\ ~last.exact_match /\ last.limit <= 0
    /\ Len(entries) > 1
    /\ \A i \in 1..Len(entries) : Contains(Lower(entries[i].word), Lower(last.q))

\* C11: whatever calls came before, a call of cached_results returns what
\* _results returns for the same arguments: every value the cache holds equals
\* the recomputed one; and the calls two callers made with the same key returned
\* the same exactFound and hasMore.
C11_CacheTransparency ==
    /\ \A i \in 1..Len(cache) : cache[i].value = cached_results_body(cache[i].key)
    /\ \A c, d \in Callers :
          (/\ req[c] # <<>> /\ req[d] # <<>>
           /\ ret[c] # <<>> /\ ret[d] # <<>>
           /\ MakeKey(CallOf(req[c])) = MakeKey(CallOf(req[d])))
          => (ret[c][2] = ret[d][2] /\ ret[c][3] = ret[d][3])

\* the keys a cache holds
Keys(c) == {c[i].key : i \in 1..Len(c)}

\* of the keys a cache holds, the one looked up longest ago
Oldest(order, keys) ==
    order[CHOOSE i \in 1..Len(order) :
              order[i] \in keys /\ \A j \in 1..(i - 1) : order[j] \notin keys]

\* a step of a cache removes a key only when the cache was full and one key
\* came in, and the key removed is then the one looked up longest ago
EvictsOldest(old, new, order, capacity) ==
    Keys(old) \ Keys(new) # {}
    => /\ Len(old) = capacity
       /\ Cardinality(Keys(new) \ Keys(old)) = 1
       /\ Keys(old) \ Keys(new) = {Oldest(order, Keys(old))}

\* C12: in the lru_cache of cached_results and in a cache_response(maxsize)
\* wrapper, a miss whose function returns leaves its key in the cache, an entry
\* is removed only by a miss that brings the cache to maxsize + 1 entries, the
\* entry removed is the least recently looked up (by insertion or hit), and the
\* lookup of a key that is not in the cache (an evicted one among them) invokes
\* the wrapped function again.
C12_EvictsLeastRecentlyUsed ==
    [][/\ wmaxsize # Unbounded
            => /\ EvictsOldest(wcache, wcache', hist.wrapper, wmaxsize)
               /\ \A c \in Callers :
                     (WFinish(c) /\ ~IsRaised(Run(req[c]).resp))
                     => WKey(req[c]) \in Keys(wcache')
       /\ EvictsOldest(cache, cache', hist.lru, maxsize)
       /\ \A c \in Callers, r \in WRequests :
             (WEnter(c, r) /\ ~WHas(WKey(r))) => wcalls' = wcalls + 1
       /\ \A c \in Callers :
             (/\ WFinish(c) /\ CallsCachedResults(req[c])
              /\ ~CacheHas(MakeKey(CallOf(req[c]))))
             => /\ invoked'[MakeKey(CallOf(req[c]))] = 1
                /\ ret'[c] = cached_results_body(CallOf(req[c]))]_vars

\* C12 witness: both caches are full and each has lost a key that was looked up
\* before.
C12_Witness ==
    /\ wmaxsize = SmallSize
    /\ Len(wcache) = wmaxsize /\ Len(cache) = maxsize
    /\ \E i \in 1..Len(hist.wrapper) : ~WHas(hist.wrapper[i])
    /\ \E i \in 1..Len(hist.lru) : ~CacheHas(hist.lru[i])

\* C13: a hit (in a wrapper of either form, and in the lru_cache) does not
\* invoke the wrapped function, returns the stored value, makes the key the most
\* recently used one and leaves the set of cached keys and their values as they
\* are.
C13_HitReturnsStoredValue ==
    [][/\ \A c \in Callers, r \in WRequests :
             (WEnter(c, r) /\ WHas(WKey(r)))
             => /\ wcalls' = wcalls
                /\ resp'[c] = wcache[WIndex(WKey(r))].value
                /\ wcache'[Len(wcache')].key = WKey(r)
                /\ {wcache'[i] : i \in 1..Len(wcache')}
                       = {wcache[i] : i \in 1..Len(wcache)}
       /\ \A c \in Callers :
             (/\ WFinish(c) /\ CallsCachedResults(req[c])
              /\ CacheHas(MakeKey(CallOf(req[c]))))
             => LET key == MakeKey(CallOf(req[c]))
                IN  /\ invoked' = invoked
                    /\ ret'[c] = cache[CacheIndex(key)].value
                    /\ cache'[Len(cache')].key = key
                    /\ {cache'[i] : i \in 1..Len(cache')}
                           = {cache[i] : i \in 1..Len(cache)}]_vars

\* C13 witness: a wrapper with maxsize has answered a call from its cache, and
\* holds the responses to two calls for one word, the second of which found the
\* word in the lru_cache.
C13_Witness ==
    /\ wmaxsize = SmallSize
    /\ wlock = 0
    /\ ncalls > wcalls
    /\ \E i, j \in 1..Len(wcache) : i # j /\ wcache[i].key[2] = wcache[j].key[2]

\* C14: once the calls have returned, no cache holds more entries than the
\* capacity caches are constructed with: the lru_cache of cached_results, the
\* wrappers with maxsize and the wrappers of the bare form.
C14_CachesAreBounded ==
    wlock = 0 => (Len(cache) <= maxsize /\ Len(wcache) <= SmallSize)

\* C14 for the caches that have a maxsize
C14_SizedCachesAreBounded ==
    wlock = 0 => (/\ Len(cache) <= maxsize
                  /\ wmaxsize # Unbounded => Len(wcache) <= wmaxsize)

\* C18: when the wrapped function raises, the caller gets the exception, the
\* wrapper's cache keeps its entries and their order, and the lock is free
\* again; no cache entry ever holds an exception, and the lock is held only by
\* a caller that is inside the wrapped function.
C18_FailuresAreNotCached ==
    /\ [](/\ \A i \in 1..Len(wcache) : ~IsRaised(wcache[i].value)
          /\ wlock # 0 => pc[wlock] = "func")
    /\ [][\A c \in Callers :
             (WFinish(c) /\ IsRaised(Run(req[c]).resp))
             => /\ resp'[c] = Run(req[c]).resp
                /\ wcache' = wcache
                /\ hist'.wrapper = hist.wrapper
                /\ wlock' = 0]_vars

\* C18 witness: two calls with the same arguments both ended in the exception
\* of the wrapped function, which was invoked for each of them.
C18_Witness ==
    /\ IsRaised(resp[1]) /\ IsRaised(resp[2])
    /\ req[1] = req[2]
    /\ wcalls >= 2
    /\ wlock = 0
    /\ \A i \in 1..Len(wcache) : wcache[i].key # WKey(req[1])

C20_SuggestReturnsTopRanked ==
    \A c \in Callers :
        (req[c] # <<>> /\ req[c].handler = "api_suggest" /\ req[c].limit >= 1)
        => LET q == req[c].q
               top == IF PluralFallback(q, FALSE, Ranked(q, FALSE))
                      THEN Ranked(DropLast(q), TRUE)
                      ELSE Ranked(q, FALSE)
               n == IF req[c].limit < Len(top) THEN req[c].limit ELSE Len(top)
           IN  resp[c].content = [i \in 1..n |-> top[i].word]

\* w without its leading and trailing whitespace, said without str.strip():
\* what is left of w without the longest run of whitespace at its start and
\* the longest one at its end
Stripped(w) ==
    LET a == Cardinality({i \in 1..Len(w) : \A j \in 1..i : IsSpace(w[j])})
        b == Cardinality({i \in 1..Len(w) : \A j \in i..Len(w) : IsSpace(w[j])})
    IN  IF a = Len(w) THEN <<>> ELSE SubSeq(w, a + 1, Len(w) - b)

\* the first entry of the corpus whose lower-cased word is the lower-cased w
FirstEqual(w) ==
    entries[CHOOSE i \in 1..Len(entries) :
                /\ Lower(entries[i].word) = Lower(w)
                /\ \A j \in 1..(i - 1) : Lower(entries[j].word) # Lower(w)]

ItemKeys ==
    {"word", "def", "ipa_uk", "ipa_us", "audio_uk", "audio_us", "page_num", "page_url"}

\* C21: api_item(w) and api_item_parsed(w) answer with HTTP 200; with the error
\* object exactly when no entry's lower-cased word equals the lower-cased,
\* stripped w, and otherwise with the first such entry, which has all the keys
\* of an item.
C21_ItemOrError ==
    \A c \in Callers :
        (req[c] # <<>> /\ req[c].handler \in {"api_item", "api_item_parsed"})
        => LET ws == Stripped(req[c].q)
               content == resp[c].content
           IN  /\ resp[c].kind = "json"
               /\ resp[c].status = 200
               /\ IF HasEqual(ws)
                  THEN /\ ItemKeys \subseteq DOMAIN content
                       /\ "error" \notin DOMAIN content
                       /\ content.word = FirstEqual(ws).word
                       /\ content.page_num = FirstEqual(ws).page_num
                       /\ \A k \in ItemKeys : content[k] = _format_item(FirstEqual(ws))[k]
                  ELSE /\ "error" \in DOMAIN content
                       /\ content.error = TRUE

\* C21 witness: one caller asked api_item_parsed for a word the corpus holds, in
\* a request with whitespace around it or not, and another asked for a word it
\* does not hold.
C21_Witness ==
    \E c, d \in Callers :
        /\ req[c] # <<>> /\ req[c].handler = "api_item_parsed"
        /\ HasEqual(Stripped(req[c].q))
        /\ "parsed" \in DOMAIN resp[c].content
        /\ req[d] # <<>> /\ req[d].handler = "api_item"
        /\ req[d].q # Stripped(req[d].q)
        /\ ~HasEqual(Stripped(req[d].q))
        /\ resp[d].content = [error |-> TRUE,
                              errmsg |-> <<"No entry found for", Stripped(req[d].q)>>]

\* C22: /page/{n} answers a non-integer n with 400, an integer n outside 1..707
\* with 404 and an integer n in 1..707 with 200.
C22_PageStatus ==
    \A c \in Callers :
        (req[c] # <<>> /\ req[c].handler = "page")
        => resp[c].status = IF IntRaises(req[c].q) THEN 400
                            ELSE IF IntOf(req[c].q) \in 1..707 THEN 200
                            ELSE 404

\* what holds of /page/{n}: as C22, but a non-integer n is answered with 500
C22_PageStatusInvalidIs500 ==
    \A c \in Callers :
        (req[c] # <<>> /\ req[c].handler = "page")
        => resp[c].status = IF IntRaises(req[c].q) THEN 500
                            ELSE IF IntOf(req[c].q) \in 1..707 THEN 200
                            ELSE 404

\* the tokens of the line, the positions of those that are categories, and
\* the tokens before position k without their byte-order marks (a token that
\* was nothing but byte-order marks is gone with them)
LineTokens == SplitWs(line)

CategoryAt == {i \in 1..Len(LineTokens) : LineTokens[i] \in CATEGORIES}

WordTokens(k) ==
    SelectSeq([i \in 1..(k - 1) |-> SelectSeq(LineTokens[i], LAMBDA x : x # BOM)],
              LAMBDA t : t # <<>>)

\* C23: parse_line splits the line at its first token that is a category: the
\* word is the tokens before it, without byte-order marks, joined by single
\* spaces, the definition is that token and the following ones joined by
\* single spaces.  It raises "No cat found" when no token is a category and
\* "Invalid entry" when a token before the category is wrapped in
\* parentheses, and returns no value then.
C23_ParseLine ==
    wd.done
    => IF CategoryAt = {}
       THEN wd.raised = "No cat found" /\ wd.value = <<>>
       ELSE LET k == CHOOSE i \in CategoryAt : \A j \in CategoryAt : i <= j
                before == WordTokens(k)
                word == wd.value[1]
                definition == wd.value[2]
            IN  IF \E i \in 1..Len(before) :
                       before[i][1] = 40 /\ before[i][Len(before[i])] = 41
                THEN wd.raised = "Invalid entry" /\ wd.value = <<>>
                ELSE /\ wd.raised = ""
                     /\ Len(wd.value) = 2
                     /\ IF before = <<>> THEN word = <<>>
                        ELSE Split(word, 32) = before
                     /\ Split(definition, 32) = SubSeq(LineTokens, k, Len(LineTokens))

\* C23 witness: a line of two words, the first with a byte-order mark, and a
\* category, separated by a space and a tab, was parsed into the word
\* "cat ice" and the definition "n.".
C23_Witness ==
    /\ wd.done
    /\ wd.raised = ""
    /\ \E i \in 1..Len(line) : line[i] = BOM
    /\ \E i \in 1..Len(line) : line[i] = 9
    /\ wd.value = <<CAT \o <<32, 105, 99, 101>>, CAT_N>>

\* the callers whose call of the function wrapped by cache_response, and the
\* callers whose call of the function wrapped by lru_cache, has begun and has
\* not returned
InFunc == {c \in Callers : pc[c] = "func"}

InResults == {c \in Callers : pc[c] = "miss"}

CallsMade == ResultsCalls(entries, last.q, last.exact_match, last.limit).calls

\* C25: every call of _results returns, and it enters the plural fallback
\* recursion at most once: a recursive call is the second and last call, it
\* has exact_match=True and the query without its last letter.
C25_FallbackAtMostOnce ==
    last.done
    => /\ Len(last.ret) = 3
       /\ Len(CallsMade) <= 2
       /\ CallsMade[1] = <<last.q, last.exact_match>>
       /\ Len(CallsMade) = 2
            => /\ ~last.exact_match
               /\ CallsMade[2] = <<SubSeq(last.q, 1, Len(last.q) - 1), TRUE>>

\* C25 witness: a call with a query made only of the letter 's' took the
\* plural fallback and returned.
C25_Witness ==
    /\ last.done
    /\ last.q = <<115, 115, 115, 115>>
    /\ Len(CallsMade) = 2
    /\ last.ret = <<<<>>, FALSE, FALSE>>

\* two keys of a cache_response cache that differ at most in the Request
\* object, the first argument of the handler
SameParameters(k1, k2) == Tail(k1) = Tail(k2)

\* C26: a call of a wrapped handler whose arguments equal those of an entry
\* of the cache, except for the Request object, is served from the cache: a
\* caller enters the wrapped handler only when the cache holds no entry with
\* the same parameters.
C26_CachedAcrossRequests ==
    [][\A c \in Callers :
          (pc[c] = "idle" /\ pc'[c] = "func")
          => ~\E i \in 1..Len(wcache) : SameParameters(wcache[i].key, WKey(req'[c]))]_vars

\* C27: handlers never modify a value the search cache holds, so the response
\* of api_item for w is the one made from a fresh _results computation,
\* whether or not api_item_parsed was called for w before.
C27_ItemResponseUnaffected ==
    \A c \in Callers :
        (req[c] # <<>> /\ req[c].handler = "api_item")
        => resp[c] = api_item(req[c], cached_results_body(CallOf(req[c]))).resp

\* C28: search is case-insensitive in the query: a call returns the triple
\* that the call with the lower-cased query returns, for the same corpus,
\* mode and limit, the plural fallback included.
C28_CaseInsensitiveQuery ==
    last.done
    => last.ret = ResultsOver(entries, Lower(last.q), last.exact_match, last.limit)

\* ... which holds of the calls that do not end in the plural fallback of the
\* lower-cased query
C28_CaseInsensitiveWithoutFallback ==
    (/\ last.done
     /\ Len(ResultsCalls(entries, Lower(last.q), last.exact_match, last.limit).calls) = 1)
    => last.ret = ResultsOver(entries, Lower(last.q), last.exact_match, last.limit)

\* the first n characters of s
FirstChars(s, n) == SubSeq(s, 1, IF Len(s) < n THEN Len(s) ELSE n)

IsAsciiLetter(x) == (65 <= x /\ x <= 90) \/ (97 <= x /\ x <= 122)

\* C29: a line is added to the missing-words file only by a search whose
\* stripped query is not empty, is made of ASCII letters only, has a
\* lower-cased form outside KNOWN_MISSING_WORDS and for which the search,
\* plural fallback included, returned no result or no exact match; the line
\* is the first 100 characters of the stripped query at most.
C29_RecordsOnlyMissingWords ==
    [][mfile' # mfile
       => \E c \in Callers :
            /\ pc[c] # "idle" /\ pc'[c] = "idle"
            /\ req[c].handler = "search"
            /\ \E q \in {Stripped(req[c].q)} :
               \E found \in {_results(q, FALSE, req[c].limit)} :
                /\ q # <<>>
                /\ Len(found[1]) = 0 \/ ~found[2]
                /\ \A i \in 1..Len(q) : IsAsciiLetter(q[i])
                /\ Lower(q) \notin KNOWN_MISSING_WORDS
                /\ mfile'.lines = Append(mfile.lines, FirstChars(q, 100))
                /\ mfile'.size = mfile.size + Len(FirstChars(q, 100)) + 1]_vars

\* C29 witness: the searches for " zz" and for the query of 101 letters were
\* recorded as "zz" and as the first 100 letters.
C29_Witness ==
    /\ \A c \in Callers : pc[c] = "idle"
    /\ mfile.exists
    /\ mfile.lines = <<ZZ, [i \in 1..100 |-> 122]>>
    /\ \E c \in Callers : req[c].q = <<32>> \o ZZ /\ resp[c].kind = "result.html"

\* C30: under every interleaving of searches the missing-words file never
\* grows beyond MISSING_WORDS_MAX_SIZE plus one maximal line, and no line is
\* appended once its size exceeds MISSING_WORDS_MAX_SIZE.
C30_SizeLimitHolds ==
    /\ [](mfile.size <= MISSING_WORDS_MAX_SIZE + MISSING_WORD_MAXLEN + 1)
    /\ [][mfile'.lines # mfile.lines
          => ~(mfile.exists /\ mfile.size > MISSING_WORDS_MAX_SIZE)]_vars

\* ... which holds of a single search at a time
C30_SizeLimitHoldsAlone ==
    (\A c \in Callers : req[c] = <<>> \/ pc[c] = "idle") /\ ncalls <= 1
    => mfile.size <= MISSING_WORDS_MAX_SIZE + MISSING_WORD_MAXLEN + 1

====
